---- MODULE Spec2Model ----
(***************************************************************************)
(* A state-machine model of notebook/preprocessing_layers.ipynb: the       *)
(* PetFinder tutorial that loads a CSV, labels and splits it, wraps the    *)
(* splits in tf.data pipelines, adapts Keras preprocessing layers, builds  *)
(* and trains a functional model, saves and reloads it and predicts once.  *)
(*                                                                         *)
(* The state is the notebook's global namespace plus the saved-model       *)
(* directory; each action is one statement (or one loop iteration) of a    *)
(* code cell, taken in cell order.  Library calls (pandas, scikit-learn,   *)
(* tf.data, Keras) are modelled by what they compute on the values the     *)
(* notebook hands them.  Arithmetic is exact (rationals as <<num, den>>);  *)
(* float32 rounding is not modelled.                                       *)
(***************************************************************************)
EXTENDS Integers, Sequences, FiniteSets

\* ---------------------------------------------------------------- bounds
\* Largest number of rows in the CSV file.
MaxRows == 11
\* Largest stride with which the CSV file cycles through the row pool
\* (stride 0: every row of the file is the same pet).
MaxStride == 1
\* Number of rotations a random shuffle may draw from (each also reversed).
NumShuffles == 1
\* Number of distinct weight vectors training may end in.
NumWeights == 2

\* ------------------------------------------------------ program constants
\* df_to_dataset's default batch_size.
DefaultBatchSize == 32
\* batch_size = 5, set before the demonstration pipeline is built.
SmallBatchSize == 5
\* batch_size = 256, for the training pipelines.
LargeBatchSize == 256
\* max_tokens=5 of the lookup layers wired into the model.
ModelMaxTokens == 5
\* "4" indicates the pet was not adopted.
NotAdoptedSpeed == 4
\* test_size=0.2, as the exact rational 1/5.
test_size == <<1, 5>>

\* ------------------------------------------------------------- utilities
Min(a, b) == IF a < b THEN a ELSE b

Max(a, b) == IF a < b THEN b ELSE a

Range(s) == {s[i] : i \in DOMAIN s}

RECURSIVE SumSeq(_)
SumSeq(s) == IF s = <<>> THEN 0 ELSE Head(s) + SumSeq(Tail(s))

\* math.ceil(frac * n) for the rational frac = <<num, den>>.
Ceil(frac, n) == (n * frac[1] + frac[2] - 1) \div frac[2]

\* The position of x in the sequence s (0 when absent).
IndexOf(s, x) == IF \E i \in DOMAIN s : s[i] = x
                 THEN CHOOSE i \in DOMAIN s : s[i] = x /\ \A j \in 1..(i-1) : s[j] # x
                 ELSE 0

\* The outcomes a random permutation of n positions is drawn from: the
\* rotations of 1..n by fewer than NumShuffles places, and their reversals.
Shuffles(n) ==
    { [i \in 1..n |-> IF rev THEN ((n - i + k) % n) + 1 ELSE ((i - 1 + k) % n) + 1]
        : k \in 0..(Min(NumShuffles, Max(n, 1)) - 1), rev \in BOOLEAN }

\* ------------------------------------------------------------ the CSV file
CsvColumns == <<"Type", "Age", "Breed1", "Gender", "Color1", "Color2",
                "MaturitySize", "FurLength", "Vaccinated", "Sterilized",
                "Health", "Fee", "Description", "PhotoAmt", "AdoptionSpeed">>

Pet(type, age, breed, gender, c1, c2, size, fur, vacc, ster, health, fee, descr, photos, speed) ==
    [Type |-> type, Age |-> age, Breed1 |-> breed, Gender |-> gender,
     Color1 |-> c1, Color2 |-> c2, MaturitySize |-> size, FurLength |-> fur,
     Vaccinated |-> vacc, Sterilized |-> ster, Health |-> health, Fee |-> fee,
     Description |-> descr, PhotoAmt |-> photos, AdoptionSpeed |-> speed]

\* The rows a CSV file is made of: the five rows dataframe.head() shows,
\* and two more so that every AdoptionSpeed class 0..4 occurs.
RowPool ==
    << Pet("Cat", 3, "Tabby", "Male", "Black", "White", "Small", "Short",
           "No", "No", "Healthy", 100, "Nibble", 1, 2),
       Pet("Cat", 1, "Domestic Medium Hair", "Male", "Black", "Brown", "Medium",
           "Medium", "Not Sure", "Not Sure", "Healthy", 0, "I just found it", 2, 0),
       Pet("Dog", 1, "Mixed Breed", "Male", "Brown", "White", "Medium",
           "Medium", "Yes", "No", "Healthy", 0, "Their pregnant mother", 7, 3),
       Pet("Dog", 4, "Mixed Breed", "Female", "Black", "Brown", "Medium",
           "Short", "Yes", "No", "Healthy", 150, "Good guard dog", 8, 2),
       Pet("Dog", 1, "Mixed Breed", "Male", "Black", "No Color", "Medium",
           "Short", "No", "No", "Healthy", 0, "This handsome", 3, 2),
       Pet("Cat", 12, "Domestic Short Hair", "Female", "White", "No Color", "Medium",
           "Short", "Not Sure", "Yes", "Minor Injury", 0, "Shy", 0, 4),
       Pet("Dog", 24, "Golden Retriever", "Female", "Golden", "No Color", "Large",
           "Long", "Yes", "Yes", "Healthy", 300, "Trained", 5, 1) >>

\* A CSV file of n rows that starts at the first pool row and advances by
\* stride, cycling.
CsvFile(n, stride) ==
    [i \in 1..n |-> RowPool[(((i - 1) * stride) % Len(RowPool)) + 1]]

\* The lexicographic order of the strings of the categorical columns, which
\* the lookup layers use to break frequency ties.
StringOrder ==
    << "Black", "Brown", "Cat", "Dog", "Domestic Medium Hair",
       "Domestic Short Hair", "Female", "Golden", "Golden Retriever", "Healthy",
       "Large", "Long", "Male", "Medium", "Minor Injury", "Mixed Breed", "No",
       "No Color", "Not Sure", "Short", "Small", "Tabby", "White", "Yes" >>

\* ------------------------------------------------------------ dataframes
\* A pandas DataFrame: its column names in order, its index labels and,
\* position by position, its rows.
EmptyFrame == [columns |-> <<>>, index |-> <<>>, rows |-> <<>>]

FrameLen(df) == Len(df.rows)

\* pd.read_csv: a RangeIndex 0..n-1 over the file's rows.
read_csv(file) ==
    [columns |-> CsvColumns,
     index   |-> [i \in 1..Len(file) |-> i - 1],
     rows    |-> file]

\* TargetOf with the two outcomes of np.where exchanged.
TargetOfSwapped(speed) == IF speed = NotAdoptedSpeed THEN 1 ELSE 0

\* np.where(cond, 0, 1) on one value of the AdoptionSpeed column.
TargetOf(speed) == IF speed = NotAdoptedSpeed THEN 0 ELSE 1

\* dataframe['target'] = np.where(dataframe['AdoptionSpeed']==4, 0, 1)
AssignTarget(df) ==
    [df EXCEPT
       !.columns = IF IndexOf(@, "target") = 0 THEN Append(@, "target") ELSE @,
       !.rows = [i \in DOMAIN @ |->
                   [c \in (DOMAIN @[i]) \cup {"target"} |->
                      IF c = "target" THEN TargetOf(@[i].AdoptionSpeed) ELSE @[i][c]]]]

\* dataframe.drop(columns=[...])
DropColumns(df, dropped) ==
    [df EXCEPT
       !.columns = SelectSeq(@, LAMBDA c : c \notin dropped),
       !.rows = [i \in DOMAIN @ |-> [c \in (DOMAIN @[i]) \ dropped |-> @[i][c]]]]

\* dataframe.iloc[positions]
ILoc(df, positions) ==
    [columns |-> df.columns,
     index   |-> [i \in DOMAIN positions |-> df.index[positions[i]]],
     rows    |-> [i \in DOMAIN positions |-> df.rows[positions[i]]]]

\* SplitSizes rounding the test part down instead of up.
SplitSizesFloor(n, frac) ==
    <<n - (n * frac[1]) \div frac[2], (n * frac[1]) \div frac[2]>>

\* scikit-learn's _validate_shuffle_split with a float test_size and no
\* train_size: <<n_train, n_test>>.
SplitSizes(n, frac) == <<n - Ceil(frac, n), Ceil(frac, n)>>

\* train_test_split(df, test_size=frac) under the drawn permutation perm:
\* the first n_test permuted positions are the test part, the next n_train
\* the train part.  <<train, test>>.
train_test_split(df, frac, perm) ==
    LET sizes == SplitSizes(FrameLen(df), frac)
    IN  << ILoc(df, [i \in 1..sizes[1] |-> perm[sizes[2] + i]]),
           ILoc(df, [i \in 1..sizes[2] |-> perm[i]]) >>

\* ------------------------------------------------------------- tf.data
\* A tf.data pipeline over column tensors: the feature dictionary's keys in
\* order, one tensor per key, the label tensor, and the shuffle / batch /
\* prefetch stages applied on top of the slices.
EmptyDataset ==
    [keys |-> <<>>, features |-> <<>>, labels |-> <<>>, shuffle |-> FALSE,
     buffer_size |-> 0, batch_size |-> 0, prefetch |-> 0]

\* df_to_dataset slicing the labels in reverse row order, so that a label no
\* longer travels with the features of its own row.
df_to_dataset_misaligned(df, shuffle, size) ==
    LET keys == SelectSeq(df.columns, LAMBDA c : c # "target")
    IN  [keys        |-> keys,
         features    |-> [c \in Range(keys) |->
                            [i \in 1..FrameLen(df) |-> df.rows[i][c]]],
         labels      |-> [i \in 1..FrameLen(df) |->
                            df.rows[FrameLen(df) + 1 - i]["target"]],
         shuffle     |-> shuffle,
         buffer_size |-> IF shuffle THEN FrameLen(df) ELSE 0,
         batch_size  |-> size,
         prefetch    |-> size]

\* df_to_dataset(dataframe, shuffle, batch_size): pop the target column as
\* the labels, slice dict(dataframe) and the labels together, shuffle with a
\* buffer as long as the dataframe, batch, prefetch.
df_to_dataset(df, shuffle, size) ==
    LET keys == SelectSeq(df.columns, LAMBDA c : c # "target")
    IN  [keys        |-> keys,
         features    |-> [c \in Range(keys) |->
                            [i \in 1..FrameLen(df) |-> df.rows[i][c]]],
         labels      |-> [i \in 1..FrameLen(df) |-> df.rows[i]["target"]],
         shuffle     |-> shuffle,
         buffer_size |-> IF shuffle THEN FrameLen(df) ELSE 0,
         batch_size  |-> size,
         prefetch    |-> size]

Cardinal(ds) == Len(ds.labels)

\* The slot of a shuffle buffer of len elements that one random draw takes:
\* the draws of a pass are the k-th slot from the front, or from the back.
Slot(len, k, rev) == IF rev THEN len - (k % len) ELSE (k % len) + 1

RemoveAt(s, j) == SubSeq(s, 1, j - 1) \o SubSeq(s, j + 1, Len(s))

\* ds.shuffle's iterator: buffer holds the slices waiting, rest the input
\* not yet read.  Each step yields the slice in the drawn slot; the slot is
\* refilled from the input, and emptied once the input is exhausted.
RECURSIVE ShuffleBuffer(_, _, _, _)
ShuffleBuffer(buffer, rest, k, rev) ==
    IF buffer = <<>> THEN <<>>
    ELSE LET j == Slot(Len(buffer), k, rev)
         IN  <<buffer[j]>> \o
             ( IF rest = <<>>
               THEN ShuffleBuffer(RemoveAt(buffer, j), rest, k, rev)
               ELSE ShuffleBuffer([buffer EXCEPT ![j] = Head(rest)], Tail(rest), k, rev) )

\* A shuffle iterator that leaves the yielded slice in its buffer and drops
\* the slice that would have refilled the slot: n draws with replacement.
shuffle_with_replacement(n, buffer_size, k, rev) ==
    [i \in 1..n |-> Slot(Min(buffer_size, n), k, rev)]

\* ds.shuffle(buffer_size) over n slices, one pass: the positions of the
\* slices in the order they are yielded.  The buffer is first filled with
\* the first buffer_size slices.
shuffle(n, buffer_size, k, rev) ==
    ShuffleBuffer([i \in 1..Min(buffer_size, n) |-> i],
                  [i \in 1..(n - Min(buffer_size, n)) |-> Min(buffer_size, n) + i],
                  k, rev)

\* The orders in which one pass over ds may yield its slices.
Orders(ds) ==
    IF ds.shuffle
    THEN {shuffle(Cardinal(ds), ds.buffer_size, k, rev) :
             k \in 0..(NumShuffles - 1), rev \in BOOLEAN}
    ELSE {[i \in 1..Cardinal(ds) |-> i]}

NumBatches(ds) == (Cardinal(ds) + ds.batch_size - 1) \div ds.batch_size

\* The elements one pass over ds yields when its slices come in the order
\* given: consecutive runs of batch_size slices, the last one shorter.
Elements(ds, order) ==
    [k \in 1..NumBatches(ds) |->
       LET first == (k - 1) * ds.batch_size
           m     == Min(ds.batch_size, Cardinal(ds) - first)
       IN  [features |-> [c \in Range(ds.keys) |->
                            [i \in 1..m |-> ds.features[c][order[first + i]]]],
            labels   |-> [i \in 1..m |-> ds.labels[order[first + i]]]]]

\* dataset.map(lambda x, y: x[name]), one pass: the batches of one feature.
FeatureBatches(ds, name, order) ==
    [k \in 1..NumBatches(ds) |-> Elements(ds, order)[k].features[name]]

RECURSIVE Flatten(_)
Flatten(batches) ==
    IF batches = <<>> THEN <<>> ELSE Head(batches) \o Flatten(Tail(batches))

\* ------------------------------------------------------------- rationals
RECURSIVE GCD(_, _)
GCD(a, b) == IF b = 0 THEN a ELSE GCD(b, a % b)

Abs(a) == IF a < 0 THEN -a ELSE a

\* The rational num/den in lowest terms with a positive denominator.
Rat(num, den) ==
    LET g == GCD(Abs(num), Abs(den))
        s == IF den < 0 THEN -1 ELSE 1
    IN  <<s * (num \div g), s * (den \div g)>>

RAdd(a, b) ==
    LET g == GCD(a[2], b[2])
    IN  Rat(a[1] * (b[2] \div g) + b[1] * (a[2] \div g), (a[2] \div g) * b[2])

RNeg(a) == <<-a[1], a[2]>>

RSub(a, b) == RAdd(a, RNeg(b))

RMul(a, b) ==
    LET x == Rat(a[1], b[2])
        y == Rat(b[1], a[2])
    IN  <<x[1] * y[1], x[2] * y[2]>>

RInt(n) == <<n, 1>>

RZero == RInt(0)

ROne == RInt(1)

RECURSIVE RSum(_)
RSum(s) == IF s = <<>> THEN RZero ELSE RAdd(Head(s), RSum(Tail(s)))

\* --------------------------------------------------------------- tensors
\* A tensor: its shape and its values, a sequence of scalars for rank 1 and
\* a sequence of rows for rank 2.
Vector(values) == [shape |-> <<Len(values)>>, values |-> values]

Rank(t) == Len(t.shape)

\* tf.convert_to_tensor([value]): a rank-1 tensor of one element.
convert_to_tensor(list) == Vector(list)

\* A function applied to every scalar of a tensor of rank 1 or 2.
MapTensor(f(_), t) ==
    [shape  |-> t.shape,
     values |-> IF Rank(t) = 1
                THEN [i \in DOMAIN t.values |-> f(t.values[i])]
                ELSE [i \in DOMAIN t.values |->
                        [j \in DOMAIN t.values[i] |-> f(t.values[i][j])]]]

\* ---------------------------------------------------- preprocessing layers
\* preprocessing.Normalization(axis=None) before adapt: running count, mean
\* and variance over all scalars seen.
NewNormalization ==
    [kind |-> "Normalization", count |-> 0, mean |-> RZero, variance |-> RZero]

\* Moments taking the mean of the squares as the variance, without centring.
MomentsUncentred(batch) ==
    LET n  == Len(batch)
        sq == [i \in DOMAIN batch |-> RInt(batch[i] * batch[i])]
    IN  <<Rat(SumSeq(batch), n), RMul(RSum(sq), Rat(1, n))>>

\* tf.nn.moments of one batch: <<mean, variance>> (population variance).
Moments(batch) ==
    LET n    == Len(batch)
        mean == Rat(SumSeq(batch), n)
        sq   == [i \in DOMAIN batch |->
                   RMul(RSub(RInt(batch[i]), mean), RSub(RInt(batch[i]), mean))]
    IN  <<mean, RMul(RSum(sq), Rat(1, n))>>

\* Normalization.update_state: merge one batch into the running moments.
UpdateMoments(layer, batch) ==
    LET m        == Moments(batch)
        total    == layer.count + Len(batch)
        bweight  == Rat(Len(batch), total)
        eweight  == RSub(ROne, bweight)
        mean     == RAdd(RMul(layer.mean, eweight), RMul(m[1], bweight))
        edelta   == RSub(layer.mean, mean)
        bdelta   == RSub(m[1], mean)
        variance == RAdd(RMul(RAdd(layer.variance, RMul(edelta, edelta)), eweight),
                         RMul(RAdd(m[2], RMul(bdelta, bdelta)), bweight))
    IN  [layer EXCEPT !.count = total, !.mean = mean, !.variance = variance]

\* layer.adapt(feature_ds): one pass over the batches of the feature.
RECURSIVE AdaptNormalization(_, _)
AdaptNormalization(layer, batches) ==
    IF batches = <<>> THEN layer
    ELSE AdaptNormalization(UpdateMoments(layer, Head(batches)), Tail(batches))

\* get_normalization_layer(name, dataset), the adapt pass reading the
\* dataset's slices in the order given.
get_normalization_layer(name, dataset, order) ==
    AdaptNormalization(NewNormalization, FeatureBatches(dataset, name, order))

\* One normalized scalar, (x - mean) / maximum(sqrt(variance), epsilon), kept
\* exact as the centred value and the square of the divisor (a variance of
\* 0 stands for the divisor epsilon).
Normalize(layer, x) ==
    [centered |-> RSub(RInt(x), layer.mean), scale2 |-> layer.variance]

\* The OOV token a lookup layer keeps at index 0.
OovToken(dtype) == IF dtype = "string" THEN "[UNK]" ELSE -1

\* The sort key of a token: its value (integers) or its place in the
\* lexicographic order (strings).
TokenKey(dtype, tok) == IF dtype = "string" THEN IndexOf(StringOrder, tok) ELSE tok

\* How often tok occurs in the values.
CountOf(values, tok) == Cardinality({i \in DOMAIN values : values[i] = tok})

\* Whether token a comes before token b in the learned vocabulary: the more
\* frequent first, ties by descending token.
Before(dtype, values, a, b) ==
    \/ CountOf(values, a) > CountOf(values, b)
    \/ /\ CountOf(values, a) = CountOf(values, b)
       /\ TokenKey(dtype, a) > TokenKey(dtype, b)

\* The distinct tokens of the values, most frequent first.
SortedTokens(dtype, values) ==
    LET toks == Range(values)
    IN  [k \in 1..Cardinality(toks) |->
           CHOOSE t \in toks :
              Cardinality({u \in toks : Before(dtype, values, u, t)}) = k - 1]

\* StringLookup / IntegerLookup adapt: the OOV token, then the most frequent
\* tokens, max_tokens entries at most (0: no limit).
AdaptLookup(dtype, max_tokens, values) ==
    LET toks == SortedTokens(dtype, values)
        kept == IF max_tokens = 0 THEN Len(toks) ELSE Min(Len(toks), max_tokens - 1)
    IN  [kind       |-> IF dtype = "string" THEN "StringLookup" ELSE "IntegerLookup",
         max_tokens |-> max_tokens,
         vocabulary |-> <<OovToken(dtype)>> \o SubSeq(toks, 1, kept)]

vocabulary_size(index) == Len(index.vocabulary)

\* The integer index of one value: its place in the vocabulary, 0 when the
\* value is out of vocabulary.
LookupIndex(index, v) == Max(IndexOf(index.vocabulary, v) - 1, 0)

\* preprocessing.CategoryEncoding(num_tokens): output_mode defaults to
\* multi_hot.
CategoryEncoding(num_tokens) ==
    [kind |-> "CategoryEncoding", num_tokens |-> num_tokens,
     output_mode |-> "multi_hot"]

\* The multi-hot vector of a set of indices.
MultiHot(num_tokens, indices) ==
    [k \in 1..num_tokens |-> IF (k - 1) \in indices THEN 1 ELSE 0]

\* CategoryEncoding.call: bincount along the last axis, so a rank-1 input
\* is one sample and a rank-2 input one sample per row.
Encode(encoder, t) ==
    IF Rank(t) = 1
    THEN [shape  |-> <<encoder.num_tokens>>,
          values |-> MultiHot(encoder.num_tokens, Range(t.values))]
    ELSE [shape  |-> <<t.shape[1], encoder.num_tokens>>,
          values |-> [i \in DOMAIN t.values |->
                        MultiHot(encoder.num_tokens, Range(t.values[i]))]]

\* get_category_encoding_layer(name, dataset, dtype, max_tokens): the lookup
\* layer adapted on the feature and the encoder the returned lambda captures.
get_category_encoding_layer(name, dataset, dtype, max_tokens, order) ==
    LET index == AdaptLookup(dtype, max_tokens,
                             Flatten(FeatureBatches(dataset, name, order)))
    IN  [kind    |-> "CategoryLambda",
         index   |-> index,
         encoder |-> CategoryEncoding(vocabulary_size(index))]

\* A layer applied to a tensor.
CallLayer(layer, t) ==
    IF layer.kind = "Normalization"
    THEN MapTensor(LAMBDA x : Normalize(layer, x), t)
    ELSE Encode(layer.encoder, MapTensor(LAMBDA x : LookupIndex(layer.index, x), t))

NoLayer == [kind |-> "None"]

NoTensor == [shape |-> <<>>, values |-> <<>>]


\* ------------------------------------------------------------ Keras model
\* tf.keras.Input(shape=(1,), name=name, dtype=dtype)
Input(name, dtype) == [name |-> name, shape |-> <<1>>, dtype |-> dtype]

\* layer(input): the symbolic tensor a preprocessing layer yields for a
\* model input in the functional API.
Wire(layer_, input) == [input |-> input.name, layer |-> layer_]

\* tf.keras.layers.concatenate(encoded_features)
concatenate(features) == [kind |-> "Concatenate", parts |-> features]

NoModel == [inputs |-> <<>>, features |-> concatenate(<<>>), weights |-> 0,
            compiled |-> FALSE]

\* tf.keras.Model(all_inputs, output) over Dense(32) / Dropout / Dense(1),
\* then compile: the dense weights stand as one identifier.
Model(inputs, features, weights) ==
    [inputs |-> inputs, features |-> features, weights |-> weights,
     compiled |-> TRUE]

\* The names of a model's inputs, in order.
InputNames(inputs) == [i \in DOMAIN inputs |-> inputs[i].name]

\* Keras conforms a rank-1 argument to an Input of shape (1,): (B,) -> (B, 1).
Conform(t) ==
    IF Rank(t) = 1
    THEN [shape |-> <<t.shape[1], 1>>,
          values |-> [i \in DOMAIN t.values |-> <<t.values[i]>>]]
    ELSE t

\* The dense head applied to one row of concatenated features: an
\* uninterpreted function of the weights and the row.
Dense(weights, row) == [weights |-> weights, features |-> row]

\* The forward pass of a model on a dictionary of tensors of one batch
\* dimension: every feature's layer applied to its conformed input, the
\* encodings concatenated row by row, the dense head on each row.
Forward(m, x) ==
    LET parts   == m.features.parts
        encoded == [i \in DOMAIN parts |->
                      CallLayer(parts[i].layer, Conform(x[parts[i].input]))]
        rows    == IF parts = <<>> THEN 0 ELSE encoded[1].shape[1]
    IN  [shape  |-> <<rows, 1>>,
         values |-> [r \in 1..rows |->
                       << Dense(m.weights,
                                Flatten([i \in DOMAIN parts |-> encoded[i].values[r]])) >>]]

\* model.predict(x) for a dictionary of tensors.
predict(m, x) == Forward(m, x)

\* tf.nn.sigmoid of one logit, kept symbolic.
sigmoid(logit) == [sigmoid |-> logit]

\* predictions[0]: the first row of a rank-2 tensor.
FirstRow(t) == Vector(t.values[1])

\* model.evaluate(dataset): the metrics of the current weights over the
\* examples of the dataset.
evaluate(m, dataset) ==
    [weights |-> m.weights, examples |-> Cardinal(dataset),
     steps |-> NumBatches(dataset)]

NoMetrics == [weights |-> 0, examples |-> 0, steps |-> 0]

\* ------------------------------------------------------------ SavedModel
\* The configuration a layer is rebuilt from.
LayerConfig(layer_) ==
    IF layer_.kind = "Normalization"
    THEN [kind |-> "Normalization"]
    ELSE [kind |-> "CategoryLambda", lookup |-> layer_.index.kind,
          max_tokens |-> layer_.index.max_tokens,
          num_tokens |-> layer_.encoder.num_tokens,
          output_mode |-> layer_.encoder.output_mode]

\* The state a layer's checkpoint holds: the moments of a Normalization
\* layer, the table of a lookup layer.
LayerState(layer_) ==
    IF layer_.kind = "Normalization"
    THEN [count |-> layer_.count, mean |-> layer_.mean, variance |-> layer_.variance]
    ELSE [vocabulary |-> layer_.index.vocabulary]


\* RestoreLayer building the layer from its configuration alone, its
\* variables left as a new layer has them: no moments, no vocabulary.
RestoreLayerFresh(config, state) ==
    IF config.kind = "Normalization"
    THEN NewNormalization
    ELSE [kind    |-> "CategoryLambda",
          index   |-> [kind |-> config.lookup, max_tokens |-> config.max_tokens,
                       vocabulary |-> <<OovToken(IF config.lookup = "StringLookup"
                                                 THEN "string" ELSE "int64")>>],
          encoder |-> [kind |-> "CategoryEncoding", num_tokens |-> config.num_tokens,
                       output_mode |-> config.output_mode]]

\* A layer rebuilt from its configuration and its checkpointed state.
RestoreLayer(config, state) ==
    IF config.kind = "Normalization"
    THEN [kind |-> "Normalization", count |-> state.count, mean |-> state.mean,
          variance |-> state.variance]
    ELSE [kind    |-> "CategoryLambda",
          index   |-> [kind |-> config.lookup, max_tokens |-> config.max_tokens,
                       vocabulary |-> state.vocabulary],
          encoder |-> [kind |-> "CategoryEncoding", num_tokens |-> config.num_tokens,
                       output_mode |-> config.output_mode]]

NoSavedModel == [exists |-> FALSE]

\* model.save(path): the SavedModel directory.
save(m) ==
    [exists   |-> TRUE,
     inputs   |-> m.inputs,
     graph    |-> [i \in DOMAIN m.features.parts |->
                     [input  |-> m.features.parts[i].input,
                      config |-> LayerConfig(m.features.parts[i].layer)]],
     variables |-> [i \in DOMAIN m.features.parts |->
                     LayerState(m.features.parts[i].layer)],
     weights  |-> m.weights]

\* tf.keras.models.load_model(path)
load_model(dir) ==
    [inputs   |-> dir.inputs,
     features |-> concatenate([i \in DOMAIN dir.graph |->
                     [input |-> dir.graph[i].input,
                      layer |-> RestoreLayer(dir.graph[i].config, dir.variables[i])]]),
     weights  |-> dir.weights,
     compiled |-> TRUE]

\* ------------------------------------------------------------ the program
numeric_headers == <<"PhotoAmt", "Fee">>

\* categorical_cols with its last header left out.
categorical_cols_short ==
    <<"Type", "Color1", "Color2", "Gender", "MaturitySize",
      "FurLength", "Vaccinated", "Sterilized", "Health">>

categorical_cols == <<"Type", "Color1", "Color2", "Gender", "MaturitySize",
                      "FurLength", "Vaccinated", "Sterilized", "Health", "Breed1">>

sample ==
    [Type |-> "Cat", Age |-> 3, Breed1 |-> "Tabby", Gender |-> "Male",
     Color1 |-> "Black", Color2 |-> "White", MaturitySize |-> "Small",
     FurLength |-> "Short", Vaccinated |-> "No", Sterilized |-> "No",
     Health |-> "Healthy", Fee |-> 100, PhotoAmt |-> 2]

Stmt(name) == [stmt |-> name, header |-> ""]

\* The two statements of one iteration of a feature loop: build and adapt
\* the layer for header, then wire it to the header's Input and append.
Iteration(kind, header) ==
    << [stmt |-> kind \o "_adapt", header |-> header],
       [stmt |-> kind \o "_wire", header |-> header] >>

RECURSIVE Loop(_, _)
Loop(kind, headers) ==
    IF headers = <<>> THEN <<>>
    ELSE Iteration(kind, Head(headers)) \o Loop(kind, Tail(headers))

\* Program with the evaluate cell placed before the fit cell.
ProgramEvaluateFirst ==
    << Stmt("read_csv"), Stmt("create_target"), Stmt("drop_columns"),
       Stmt("split_test"), Stmt("split_val"), Stmt("demo_pipeline"),
       Stmt("take_one"), Stmt("demo_normalization"), Stmt("demo_type"),
       Stmt("demo_age"), Stmt("build_pipelines"), Stmt("init_lists") >>
    \o Loop("numeric", numeric_headers)
    \o Loop("age", <<"Age">>)
    \o Loop("categorical", categorical_cols)
    \o << Stmt("concatenate"), Stmt("build_model"), Stmt("evaluate"),
          Stmt("fit"), Stmt("save"), Stmt("load_model"),
          Stmt("input_dict"), Stmt("predict") >>

\* The notebook's statements in cell order, loops unrolled.
Program ==
    << Stmt("read_csv"), Stmt("create_target"), Stmt("drop_columns"),
       Stmt("split_test"), Stmt("split_val"), Stmt("demo_pipeline"),
       Stmt("take_one"), Stmt("demo_normalization"), Stmt("demo_type"),
       Stmt("demo_age"), Stmt("build_pipelines"), Stmt("init_lists") >>
    \o Loop("numeric", numeric_headers)
    \o Loop("age", <<"Age">>)
    \o Loop("categorical", categorical_cols)
    \o << Stmt("concatenate"), Stmt("build_model"), Stmt("fit"),
          Stmt("evaluate"), Stmt("save"), Stmt("load_model"),
          Stmt("input_dict"), Stmt("predict") >>

\* ---------------------------------------------------------------- state
VARIABLES
    pc,              \* the index in Program of the next statement
    raised,          \* the exception that stopped the notebook ("" for none)
    log,             \* the statements completed so far, in order
    csv_file,        \* the rows of the CSV file read_csv reads
    dataframe,       \* dataframe
    train,           \* train
    val,             \* val
    test,            \* test
    batch_size,      \* batch_size
    train_ds,        \* train_ds
    val_ds,          \* val_ds
    test_ds,         \* test_ds
    train_features,  \* train_features
    label_batch,     \* label_batch
    photo_count_col, \* photo_count_col
    type_col,        \* type_col
    layer,           \* layer
    category_encoding_layer, \* category_encoding_layer
    out,             \* the value the last demonstration cell displayed
    all_inputs,      \* all_inputs
    encoded_features, \* encoded_features
    current_col,     \* numeric_col / age_col / categorical_col
    current_layer,   \* normalization_layer / encoding_layer
    all_features,    \* all_features
    model,           \* model
    metrics,         \* loss, accuracy
    saved_dir,       \* the directory my_pet_classifier
    reloaded_model,  \* reloaded_model
    input_dict,      \* input_dict
    predictions,     \* predictions
    prob             \* prob

control == <<pc, raised, log>>

frames == <<dataframe, train, val, test>>

pipelines == <<batch_size, train_ds, val_ds, test_ds>>

demo_batch == <<train_features, label_batch>>

demo_layers == <<photo_count_col, type_col, layer, category_encoding_layer, out>>

wiring == <<all_inputs, encoded_features, current_col, current_layer, all_features>>

training == <<model, metrics>>

inference == <<saved_dir, reloaded_model, input_dict, predictions, prob>>

vars == <<control, csv_file, frames, pipelines, demo_batch, demo_layers, wiring,
          training, inference>>

Init ==
    /\ pc = 1
    /\ raised = ""
    /\ log = <<>>
    /\ \E n \in 1..MaxRows, stride \in 0..MaxStride : csv_file = CsvFile(n, stride)
    /\ dataframe = EmptyFrame
    /\ train = EmptyFrame
    /\ val = EmptyFrame
    /\ test = EmptyFrame
    /\ batch_size = 0
    /\ train_ds = EmptyDataset
    /\ val_ds = EmptyDataset
    /\ test_ds = EmptyDataset
    /\ train_features = <<>>
    /\ label_batch = <<>>
    /\ photo_count_col = <<>>
    /\ type_col = <<>>
    /\ layer = NoLayer
    /\ category_encoding_layer = NoLayer
    /\ out = NoTensor
    /\ all_inputs = <<>>
    /\ encoded_features = <<>>
    /\ current_col = Input("", "")
    /\ current_layer = NoLayer
    /\ all_features = concatenate(<<>>)
    /\ model = NoModel
    /\ metrics = NoMetrics
    /\ saved_dir = NoSavedModel
    /\ reloaded_model = NoModel
    /\ input_dict = <<>>
    /\ predictions = NoTensor
    /\ prob = NoTensor

\* The statement the notebook is at.
Cur == IF pc \in DOMAIN Program THEN Program[pc] ELSE Stmt("done")

At(name) == raised = "" /\ Cur.stmt = name

\* The statement completes and control moves to the next one.
Advance ==
    /\ pc' = pc + 1
    /\ log' = Append(log, Cur)
    /\ UNCHANGED raised

\* dataframe = pd.read_csv(csv_file)
ReadCsv ==
    /\ At("read_csv")
    /\ dataframe' = read_csv(csv_file)
    /\ Advance
    /\ UNCHANGED <<csv_file, train, val, test, pipelines, demo_batch, demo_layers,
                   wiring, training, inference>>

\* dataframe['target'] = np.where(dataframe['AdoptionSpeed']==4, 0, 1)
CreateTarget ==
    /\ At("create_target")
    /\ dataframe' = AssignTarget(dataframe)
    /\ Advance
    /\ UNCHANGED <<csv_file, train, val, test, pipelines, demo_batch, demo_layers,
                   wiring, training, inference>>

\* dataframe = dataframe.drop(columns=['AdoptionSpeed', 'Description'])
DropUnused ==
    /\ At("drop_columns")
    /\ dataframe' = DropColumns(dataframe, {"AdoptionSpeed", "Description"})
    /\ Advance
    /\ UNCHANGED <<csv_file, train, val, test, pipelines, demo_batch, demo_layers,
                   wiring, training, inference>>

\* The dataframe the statement at hand splits.
SplitSource == IF Cur.stmt = "split_test" THEN dataframe ELSE train

\* train_test_split raises ValueError when the train part would be empty.
SplitFails == SplitSizes(FrameLen(SplitSource), test_size)[1] = 0

\* train, test = train_test_split(dataframe, test_size=0.2)
SplitTest ==
    /\ At("split_test")
    /\ ~SplitFails
    /\ \E perm \in Shuffles(FrameLen(dataframe)) :
          LET parts == train_test_split(dataframe, test_size, perm)
          IN  /\ train' = parts[1]
              /\ test' = parts[2]
    /\ Advance
    /\ UNCHANGED <<csv_file, dataframe, val, pipelines, demo_batch, demo_layers,
                   wiring, training, inference>>

\* train, val = train_test_split(train, test_size=0.2)
SplitVal ==
    /\ At("split_val")
    /\ ~SplitFails
    /\ \E perm \in Shuffles(FrameLen(train)) :
          LET parts == train_test_split(train, test_size, perm)
          IN  /\ train' = parts[1]
              /\ val' = parts[2]
    /\ Advance
    /\ UNCHANGED <<csv_file, dataframe, test, pipelines, demo_batch, demo_layers,
                   wiring, training, inference>>

\* A train_test_split call raises; the notebook stops at the failing cell.
SplitError ==
    /\ At("split_test") \/ At("split_val")
    /\ SplitFails
    /\ raised' = "ValueError"
    /\ UNCHANGED <<pc, log, csv_file, frames, pipelines, demo_batch, demo_layers,
                   wiring, training, inference>>

\* batch_size = 5
\* train_ds = df_to_dataset(train)
DemoPipeline ==
    /\ At("demo_pipeline")
    /\ batch_size' = SmallBatchSize
    /\ train_ds' = df_to_dataset(train, TRUE, DefaultBatchSize)
    /\ Advance
    /\ UNCHANGED <<csv_file, frames, val_ds, test_ds, demo_batch, demo_layers,
                   wiring, training, inference>>

\* [(train_features, label_batch)] = train_ds.take(1)
TakeOne ==
    /\ At("take_one")
    /\ \E order \in Orders(train_ds) :
          LET first == Elements(train_ds, order)[1]
          IN  /\ train_features' = first.features
              /\ label_batch' = first.labels
    /\ Advance
    /\ UNCHANGED <<csv_file, frames, pipelines, demo_layers, wiring, training,
                   inference>>

\* photo_count_col = train_features['PhotoAmt']
\* layer = get_normalization_layer('PhotoAmt', train_ds)
\* layer(photo_count_col)
DemoNormalization ==
    /\ At("demo_normalization")
    /\ photo_count_col' = train_features["PhotoAmt"]
    /\ \E order \in Orders(train_ds) :
          layer' = get_normalization_layer("PhotoAmt", train_ds, order)
    /\ out' = CallLayer(layer', Vector(photo_count_col'))
    /\ Advance
    /\ UNCHANGED <<csv_file, frames, pipelines, demo_batch, type_col,
                   category_encoding_layer, wiring, training, inference>>

\* type_col = train_features['Type']
\* layer = get_category_encoding_layer('Type', train_ds, 'string')
\* layer(type_col)
DemoTypeEncoding ==
    /\ At("demo_type")
    /\ type_col' = train_features["Type"]
    /\ \E order \in Orders(train_ds) :
          layer' = get_category_encoding_layer("Type", train_ds, "string", 0, order)
    /\ out' = CallLayer(layer', Vector(type_col'))
    /\ Advance
    /\ UNCHANGED <<csv_file, frames, pipelines, demo_batch, photo_count_col,
                   category_encoding_layer, wiring, training, inference>>

\* type_col = train_features['Age']
\* category_encoding_layer = get_category_encoding_layer('Age', train_ds, 'int64', 5)
\* category_encoding_layer(type_col)
DemoAgeEncoding ==
    /\ At("demo_age")
    /\ type_col' = train_features["Age"]
    /\ \E order \in Orders(train_ds) :
          category_encoding_layer' =
              get_category_encoding_layer("Age", train_ds, "int64", ModelMaxTokens, order)
    /\ out' = CallLayer(category_encoding_layer', Vector(type_col'))
    /\ Advance
    /\ UNCHANGED <<csv_file, frames, pipelines, demo_batch, photo_count_col, layer,
                   wiring, training, inference>>

\* batch_size = 256
\* train_ds = df_to_dataset(train, batch_size=batch_size)
\* val_ds = df_to_dataset(val, shuffle=False, batch_size=batch_size)
\* test_ds = df_to_dataset(test, shuffle=False, batch_size=batch_size)
BuildPipelines ==
    /\ At("build_pipelines")
    /\ batch_size' = LargeBatchSize
    /\ train_ds' = df_to_dataset(train, TRUE, batch_size')
    /\ val_ds' = df_to_dataset(val, FALSE, batch_size')
    /\ test_ds' = df_to_dataset(test, FALSE, batch_size')
    /\ Advance
    /\ UNCHANGED <<csv_file, frames, demo_batch, demo_layers, wiring, training,
                   inference>>

\* all_inputs = []
\* encoded_features = []
InitLists ==
    /\ At("init_lists")
    /\ all_inputs' = <<>>
    /\ encoded_features' = <<>>
    /\ Advance
    /\ UNCHANGED <<csv_file, frames, pipelines, demo_batch, demo_layers, current_col,
                   current_layer, all_features, training, inference>>

\* numeric_col = tf.keras.Input(shape=(1,), name=header)
\* normalization_layer = get_normalization_layer(header, train_ds)
NumericAdapt ==
    /\ At("numeric_adapt")
    /\ current_col' = Input(Cur.header, "float32")
    /\ \E order \in Orders(train_ds) :
          current_layer' = get_normalization_layer(Cur.header, train_ds, order)
    /\ Advance
    /\ UNCHANGED <<csv_file, frames, pipelines, demo_batch, demo_layers, all_inputs,
                   encoded_features, all_features, training, inference>>

\* age_col = tf.keras.Input(shape=(1,), name='Age', dtype='int64')
\* encoding_layer = get_category_encoding_layer('Age', train_ds, dtype='int64',
\*                                              max_tokens=5)
AgeAdapt ==
    /\ At("age_adapt")
    /\ current_col' = Input(Cur.header, "int64")
    /\ \E order \in Orders(train_ds) :
          current_layer' =
              get_category_encoding_layer(Cur.header, train_ds, "int64",
                                          ModelMaxTokens, order)
    /\ Advance
    /\ UNCHANGED <<csv_file, frames, pipelines, demo_batch, demo_layers, all_inputs,
                   encoded_features, all_features, training, inference>>

\* categorical_col = tf.keras.Input(shape=(1,), name=header, dtype='string')
\* encoding_layer = get_category_encoding_layer(header, train_ds, dtype='string',
\*                                              max_tokens=5)
CategoricalAdapt ==
    /\ At("categorical_adapt")
    /\ current_col' = Input(Cur.header, "string")
    /\ \E order \in Orders(train_ds) :
          current_layer' =
              get_category_encoding_layer(Cur.header, train_ds, "string",
                                          ModelMaxTokens, order)
    /\ Advance
    /\ UNCHANGED <<csv_file, frames, pipelines, demo_batch, demo_layers, all_inputs,
                   encoded_features, all_features, training, inference>>

\* encoded_col = layer(col)
\* all_inputs.append(col)
\* encoded_features.append(encoded_col)
WireFeature ==
    /\ At("numeric_wire") \/ At("age_wire") \/ At("categorical_wire")
    /\ all_inputs' = Append(all_inputs, current_col)
    /\ encoded_features' = Append(encoded_features, Wire(current_layer, current_col))
    /\ Advance
    /\ UNCHANGED <<csv_file, frames, pipelines, demo_batch, demo_layers, current_col,
                   current_layer, all_features, training, inference>>

\* all_features = tf.keras.layers.concatenate(encoded_features)
Concatenate ==
    /\ At("concatenate")
    /\ all_features' = concatenate(encoded_features)
    /\ Advance
    /\ UNCHANGED <<csv_file, frames, pipelines, demo_batch, demo_layers, all_inputs,
                   encoded_features, current_col, current_layer, training, inference>>

\* x = Dense(32, relu)(all_features); x = Dropout(0.5)(x); output = Dense(1)(x)
\* model = tf.keras.Model(all_inputs, output)
\* model.compile(...)
BuildModel ==
    /\ At("build_model")
    /\ \E initial \in 1..NumWeights : model' = Model(all_inputs, all_features, initial)
    /\ Advance
    /\ UNCHANGED <<csv_file, frames, pipelines, demo_batch, demo_layers, wiring,
                   metrics, inference>>

\* fit also re-estimating the Normalization layers' moments, as a trainable
\* normalisation would.
fit_updates_statistics(m, weights) ==
    [m EXCEPT !.weights = weights,
              !.features.parts =
                  [i \in DOMAIN @ |->
                     IF @[i].layer.kind = "Normalization"
                     THEN [@[i] EXCEPT !.layer.mean = RAdd(@, ROne)]
                     ELSE @[i]]]

\* The model a training run leaves: the dense weights are whatever the
\* epochs over train_ds end in, the preprocessing layers are not trainable.
fit(m, weights) == [m EXCEPT !.weights = weights]

\* model.fit(train_ds, epochs=10, validation_data=val_ds)
Fit ==
    /\ At("fit")
    /\ \E trained \in 1..NumWeights : model' = fit(model, trained)
    /\ Advance
    /\ UNCHANGED <<csv_file, frames, pipelines, demo_batch, demo_layers, wiring,
                   metrics, inference>>

\* loss, accuracy = model.evaluate(test_ds)
Evaluate ==
    /\ At("evaluate")
    /\ metrics' = evaluate(model, test_ds)
    /\ Advance
    /\ UNCHANGED <<csv_file, frames, pipelines, demo_batch, demo_layers, wiring,
                   model, inference>>

\* model.save('my_pet_classifier')
Save ==
    /\ At("save")
    /\ saved_dir' = save(model)
    /\ Advance
    /\ UNCHANGED <<csv_file, frames, pipelines, demo_batch, demo_layers, wiring,
                   training, reloaded_model, input_dict, predictions, prob>>

\* reloaded_model = tf.keras.models.load_model('my_pet_classifier')
LoadModel ==
    /\ At("load_model")
    /\ saved_dir.exists
    /\ reloaded_model' = load_model(saved_dir)
    /\ Advance
    /\ UNCHANGED <<csv_file, frames, pipelines, demo_batch, demo_layers, wiring,
                   training, saved_dir, input_dict, predictions, prob>>

\* InputDictOf converting the bare scalars, without wrapping each in a list.
InputDictOfScalars(s) == [name \in DOMAIN s |-> [shape |-> <<>>, values |-> s[name]]]

\* {name: tf.convert_to_tensor([value]) for name, value in sample.items()}
InputDictOf(s) == [name \in DOMAIN s |-> convert_to_tensor(<<s[name]>>)]

\* sample = {...}
\* input_dict = {name: tf.convert_to_tensor([value]) for name, value in sample.items()}
MakeInputDict ==
    /\ At("input_dict")
    /\ input_dict' = InputDictOf(sample)
    /\ Advance
    /\ UNCHANGED <<csv_file, frames, pipelines, demo_batch, demo_layers, wiring,
                   training, saved_dir, reloaded_model, predictions, prob>>

\* predictions = reloaded_model.predict(input_dict)
\* prob = tf.nn.sigmoid(predictions[0])
Predict ==
    /\ At("predict")
    /\ predictions' = predict(reloaded_model, input_dict)
    /\ prob' = MapTensor(sigmoid, FirstRow(predictions'))
    /\ Advance
    /\ UNCHANGED <<csv_file, frames, pipelines, demo_batch, demo_layers, wiring,
                   training, saved_dir, reloaded_model, input_dict>>

Next ==
    \/ ReadCsv
    \/ CreateTarget
    \/ DropUnused
    \/ SplitTest
    \/ SplitVal
    \/ SplitError
    \/ DemoPipeline
    \/ TakeOne
    \/ DemoNormalization
    \/ DemoTypeEncoding
    \/ DemoAgeEncoding
    \/ BuildPipelines
    \/ InitLists
    \/ NumericAdapt
    \/ AgeAdapt
    \/ CategoricalAdapt
    \/ WireFeature
    \/ Concatenate
    \/ BuildModel
    \/ Fit
    \/ Evaluate
    \/ Save
    \/ LoadModel
    \/ MakeInputDict
    \/ Predict

Spec == Init /\ [][Next]_vars

\* ------------------------------------------------- properties: helpers
Done == raised = "" /\ pc = Len(Program) + 1

\* The place in the log of the (first) entry of the statement, 0 if it has
\* not run.
Pos(name) ==
    IF \E i \in DOMAIN log : log[i].stmt = name
    THEN CHOOSE i \in DOMAIN log :
            log[i].stmt = name /\ \A j \in 1..(i - 1) : log[j].stmt # name
    ELSE 0

Ran(name) == Pos(name) # 0

\* Statement b has run only if a ran, and earlier.
Precedes(a, b) == Ran(b) => (Ran(a) /\ Pos(a) < Pos(b))

\* The steps the pipeline chains, in the order claimed.
PipelineChain ==
    <<"read_csv", "split_test", "split_val", "build_pipelines", "concatenate",
      "fit", "evaluate", "save", "load_model", "predict">>

AllHeaders == numeric_headers \o <<"Age">> \o categorical_cols

\* Every layer wired so far was adapted, for the same header, earlier.
AdaptedBeforeWired ==
    \A i \in DOMAIN log :
       log[i].stmt \in {"numeric_wire", "age_wire", "categorical_wire"} =>
          \E j \in 1..(i - 1) :
             /\ log[j].header = log[i].header
             /\ log[j].stmt \in {"numeric_adapt", "age_adapt", "categorical_adapt"}
             /\ Pos("build_pipelines") < j

\* C1: the notebook is one strictly sequential pipeline: load, split, wrap
\* in datasets, adapt each layer before wiring it, concatenate, fit,
\* evaluate, save, load, predict once; exactly the statements before the
\* current one have run, each once, and a later step has run only after its
\* predecessor completed and left its result.
C1_SequentialPipeline ==
    /\ \A i \in 1..(Len(PipelineChain) - 1) :
          Precedes(PipelineChain[i], PipelineChain[i + 1])
    /\ Precedes("split_val", "demo_pipeline")
    /\ AdaptedBeforeWired
    /\ Ran("concatenate") =>
          \A h \in Range(AllHeaders) :
             \E i \in 1..(Pos("concatenate") - 1) :
                log[i].header = h /\ log[i].stmt \in
                   {"numeric_wire", "age_wire", "categorical_wire"}
    /\ \A i, j \in DOMAIN log : log[i] = log[j] => i = j
    /\ raised = "" => Len(log) = pc - 1
    /\ Ran("split_test") /\ raised = "" => FrameLen(dataframe) > 0
    /\ Ran("build_pipelines") => FrameLen(train) > 0 /\ Cardinal(train_ds) > 0
    /\ Ran("fit") => model.compiled /\ Len(model.features.parts) = Len(AllHeaders)
    /\ Ran("evaluate") => metrics.examples > 0 /\ metrics.weights = model.weights
    /\ Ran("save") => saved_dir.exists /\ saved_dir.weights = metrics.weights
    /\ Ran("load_model") => reloaded_model.compiled
    /\ Ran("predict") => predictions.shape = <<1, 1>>

C1_Witness == Done /\ Ran("predict") /\ predictions.shape = <<1, 1>>

\* The CSV row a dataframe row was read from, by its index label.
CsvRowOf(df, i) == csv_file[df.index[i] + 1]

\* C2: once the label step has run, every row's target is 0 exactly when
\* the row's AdoptionSpeed in the CSV was 4 and 1 otherwise, and target
\* takes no other value; the same holds of the rows of the splits.
C2_TargetLabel ==
    Ran("create_target") =>
       \A df \in {dataframe, train, val, test} :
          \A i \in 1..FrameLen(df) :
             /\ df.rows[i]["target"] \in {0, 1}
             /\ df.rows[i]["target"] = 0 <=> CsvRowOf(df, i).AdoptionSpeed = 4

C2_Witness ==
    /\ Ran("create_target")
    /\ \E i \in 1..FrameLen(dataframe) :
          CsvRowOf(dataframe, i).AdoptionSpeed = 4 /\ dataframe.rows[i]["target"] = 0
    /\ \E i \in 1..FrameLen(dataframe) :
          CsvRowOf(dataframe, i).AdoptionSpeed = 3 /\ dataframe.rows[i]["target"] = 1

\* The demonstration pipeline is the value of train_ds from its creation
\* until the training pipelines replace it.
DemoPipelineLive == Ran("demo_pipeline") /\ ~Ran("build_pipelines")

\* C3 (as claimed): the demonstration pipeline, built right after
\* batch_size = 5, yields batches of at most 5 rows, the batch taken for
\* printing included.
C3_DemoBatchesSmall ==
    DemoPipelineLive =>
       /\ \A order \in Orders(train_ds) :
             \A k \in 1..NumBatches(train_ds) :
                Len(Elements(train_ds, order)[k].labels) <= SmallBatchSize
       /\ Len(label_batch) <= SmallBatchSize

\* The one-hot vector of an index.
OneHot(num_tokens, index) == [k \in 1..num_tokens |-> IF k - 1 = index THEN 1 ELSE 0]

\* The index a lookup layer gives the i-th value of the tensor t.
IndexAt(layer_, t, i) ==
    LookupIndex(layer_.index, IF Rank(t) = 1 THEN t.values[i] ELSE t.values[i][1])

\* The result of applying an encoding layer to the tensor t one-hot encodes
\* every value of t: the vector that stands for a value (its row of a
\* rank-2 result, the whole of a rank-1 result) has a single 1, at the
\* value's vocabulary index.
OneHotEncodes(layer_, t, result) ==
    \A i \in DOMAIN t.values :
       (IF Rank(result) = 2 THEN result.values[i] ELSE result.values)
          = OneHot(vocabulary_size(layer_.index), IndexAt(layer_, t, i))

\* C4 (as claimed): the layer get_category_encoding_layer returns one-hot
\* encodes whatever it is applied to: the batch of Type values and the
\* batch of Age values of the demonstration cells, and a model input of
\* shape (batch, 1).
C4_OneHotEncoding ==
    /\ (Ran("demo_type") /\ ~Ran("demo_age")) =>
          OneHotEncodes(layer, Vector(type_col), out)
    /\ (Ran("demo_age") /\ ~Ran("init_lists")) =>
          OneHotEncodes(category_encoding_layer, Vector(type_col), out)
    /\ \A i \in DOMAIN encoded_features :
          encoded_features[i].layer.kind = "CategoryLambda" =>
             LET x == Conform(Vector(train_ds.features[encoded_features[i].input]))
             IN  OneHotEncodes(encoded_features[i].layer, x,
                               CallLayer(encoded_features[i].layer, x))

\* The set of the index labels of a dataframe.
IndexSet(df) == Range(df.index)

\* The least k with k >= n / 5, computed by search.
CeilFifth(n) == CHOOSE k \in 0..n : 5 * k >= n /\ 5 * (k - 1) < n

\* Every row of the part is the dataframe's row of the same index label.
RowsFrom(part, df) ==
    \A i \in 1..FrameLen(part) :
       \E j \in 1..FrameLen(df) :
          df.index[j] = part.index[i] /\ df.rows[j] = part.rows[i]

\* C5: after the two train_test_split calls train, val and test are
\* pairwise disjoint, together they are exactly the dataframe's rows, test
\* has ceil(0.2 n) rows, val ceil(0.2 (n - len(test))) and train the rest;
\* for 4999 rows that is 3199 + 800 + 1000.
C5_SplitPartition ==
    /\ Ran("split_val") =>
          LET n == FrameLen(dataframe)
          IN  /\ IndexSet(train) \cap IndexSet(val) = {}
              /\ IndexSet(train) \cap IndexSet(test) = {}
              /\ IndexSet(val) \cap IndexSet(test) = {}
              /\ IndexSet(train) \cup IndexSet(val) \cup IndexSet(test)
                    = IndexSet(dataframe)
              /\ Cardinality(IndexSet(train)) = FrameLen(train)
              /\ Cardinality(IndexSet(val)) = FrameLen(val)
              /\ Cardinality(IndexSet(test)) = FrameLen(test)
              /\ RowsFrom(train, dataframe)
              /\ RowsFrom(val, dataframe)
              /\ RowsFrom(test, dataframe)
              /\ FrameLen(test) = CeilFifth(n)
              /\ FrameLen(val) = CeilFifth(n - FrameLen(test))
              /\ FrameLen(train) = n - FrameLen(test) - FrameLen(val)
              /\ FrameLen(train) + FrameLen(val) + FrameLen(test) = n
    /\ SplitSizes(4999, test_size) = <<3999, 1000>>
    /\ SplitSizes(3999, test_size) = <<3199, 800>>

C5_Witness ==
    /\ Ran("split_val")
    /\ FrameLen(dataframe) = 11
    /\ FrameLen(test) = 3
    /\ FrameLen(val) = 2
    /\ FrameLen(train) = 6

\* The element e is a pair of a feature dictionary keyed by exactly the
\* columns of df other than target and a label tensor, and at every batch
\* position the feature values and the label are those of one row of df.
ElementFrom(e, df) ==
    /\ DOMAIN e.features = Range(df.columns) \ {"target"}
    /\ \A c \in DOMAIN e.features : Len(e.features[c]) = Len(e.labels)
    /\ \A i \in 1..Len(e.labels) :
          \E j \in 1..FrameLen(df) :
             /\ \A c \in DOMAIN e.features : e.features[c][i] = df.rows[j][c]
             /\ e.labels[i] = df.rows[j]["target"]

\* Every element of every pass over ds is an element from df.
ElementsFrom(ds, df) ==
    \A order \in Orders(ds) :
       \A k \in 1..NumBatches(ds) : ElementFrom(Elements(ds, order)[k], df)

\* C6: every element a df_to_dataset pipeline yields is (features, labels)
\* with the features keyed by exactly the dataframe's columns other than
\* target, and position by position the features and the label come from
\* the same dataframe row: for the demonstration pipeline, the batch taken
\* from it, and the train, validation and test pipelines.
C6_ElementsAligned ==
    /\ Ran("demo_pipeline") => ElementsFrom(train_ds, train)
    /\ Ran("take_one") =>
          ElementFrom([features |-> train_features, labels |-> label_batch], train)
    /\ Ran("build_pipelines") =>
          /\ ElementsFrom(val_ds, val)
          /\ ElementsFrom(test_ds, test)
          /\ Range(train_ds.keys) = Range(dataframe.columns) \ {"target"}

C6_Witness ==
    /\ Ran("build_pipelines")
    /\ Len(label_batch) > 2
    /\ {0, 1} \subseteq Range(label_batch)
    /\ Cardinal(val_ds) > 1
    /\ Cardinal(test_ds) > 1

\* The value is of the raw type an Input of the dtype takes.
RawOfDtype(v, dtype) == IF dtype = "string" THEN v \in STRING ELSE v \in Int

\* The encodings the layers of the model m give the raw values of the
\* dictionary s, one value per input, concatenated.
EncodedRow(m, s) ==
    Flatten([i \in DOMAIN m.features.parts |->
               CallLayer(m.features.parts[i].layer,
                         Conform(Vector(<<s[m.features.parts[i].input]>>))).values[1]])

\* C7: the model's inputs are exactly the feature keys df_to_dataset
\* yields (every dataframe column but target), each once; the inference
\* sample supplies exactly those keys with raw strings and integers; and
\* the prediction is the dense head on what the model's own layers make of
\* those raw values.
C7_ModelTakesRawRow ==
    /\ Ran("concatenate") =>
          /\ Range(InputNames(all_inputs)) = Range(train_ds.keys)
          /\ Range(InputNames(all_inputs)) = Range(dataframe.columns) \ {"target"}
          /\ Cardinality(Range(InputNames(all_inputs))) = Len(all_inputs)
          /\ DOMAIN sample = Range(InputNames(all_inputs))
          /\ \A i \in DOMAIN all_inputs :
                RawOfDtype(sample[all_inputs[i].name], all_inputs[i].dtype)
          /\ \A i \in DOMAIN encoded_features :
                encoded_features[i].input = all_inputs[i].name
    /\ Ran("build_model") => model.inputs = all_inputs
    /\ Ran("load_model") => InputNames(reloaded_model.inputs) = InputNames(all_inputs)
    /\ Ran("input_dict") =>
          /\ DOMAIN input_dict = Range(InputNames(all_inputs))
          /\ \A name \in DOMAIN input_dict : input_dict[name].values = <<sample[name]>>
    /\ Ran("predict") =>
          predictions.values = << <<Dense(reloaded_model.weights,
                                          EncodedRow(reloaded_model, sample))>> >>

C7_Witness ==
    /\ Ran("predict")
    /\ Len(all_inputs) = 13
    /\ Len(predictions.values[1][1].features) > 13

\* The layers of a model, in feature order.
LayersOf(m) == [i \in DOMAIN m.features.parts |-> m.features.parts[i].layer]

\* The raw values a feature takes in the row pool and in the sample.
RawValues(name) == {RowPool[i][name] : i \in DOMAIN RowPool} \cup {sample[name]}

\* The encoding a layer gives one raw value.
EncodingOf(layer_, v) == CallLayer(layer_, Conform(Vector(<<v>>)))

\* Two models encode every raw value of every feature alike.
SameEncodings(m1, m2) ==
    /\ DOMAIN m1.features.parts = DOMAIN m2.features.parts
    /\ \A i \in DOMAIN m1.features.parts :
          /\ m1.features.parts[i].input = m2.features.parts[i].input
          /\ \A v \in RawValues(m1.features.parts[i].input) :
                EncodingOf(m1.features.parts[i].layer, v)
                   = EncodingOf(m2.features.parts[i].layer, v)

\* C8: what the layers learned in adapt is fixed: no step from fit on
\* changes the statistics or the vocabulary of a layer of the model, the
\* model keeps the layers as they were wired, the reloaded model holds the
\* same statistics and vocabularies, and so every raw value is encoded the
\* same in training, in evaluation and at inference on the reloaded model.
C8_AdaptedStateFixed ==
    [][ /\ model.compiled =>
             /\ LayersOf(model') = LayersOf(model)
             /\ SameEncodings(model', model)
        /\ model'.compiled =>
             LayersOf(model') = [i \in DOMAIN encoded_features |-> encoded_features[i].layer]
        /\ reloaded_model'.compiled =>
             /\ LayersOf(reloaded_model') = LayersOf(model)
             /\ SameEncodings(reloaded_model', model) ]_vars

C8_Witness ==
    /\ Ran("predict")
    /\ reloaded_model.compiled
    /\ \E i \in DOMAIN LayersOf(reloaded_model) :
          /\ LayersOf(reloaded_model)[i].kind = "Normalization"
          /\ LayersOf(reloaded_model)[i].variance # RZero
    /\ \E i \in DOMAIN LayersOf(reloaded_model) :
          /\ LayersOf(reloaded_model)[i].kind = "CategoryLambda"
          /\ vocabulary_size(LayersOf(reloaded_model)[i].index) > 2

\* The layer's outputs for all values of the feature in the dataset.
OutputsOver(layer_, ds, name) == CallLayer(layer_, Vector(ds.features[name])).values

\* The mean of the outputs is 0 (they share one positive divisor).
MeanIsZero(outs) == RSum([i \in DOMAIN outs |-> outs[i].centered]) = RZero

\* The (population) standard deviation of outputs of mean 0 is 1: the
\* divisor is sqrt(variance) > 0 and the mean of the squared centred values
\* is that variance.
StdIsOne(outs) ==
    /\ outs # <<>>
    /\ outs[1].scale2[1] > 0
    /\ RMul(RSum([i \in DOMAIN outs |-> RMul(outs[i].centered, outs[i].centered)]),
            Rat(1, Len(outs))) = outs[1].scale2

\* The layer holds the mean and the variance of exactly the values given.
ExactMoments(layer_, values) ==
    LET n == Len(values)
        s == SumSeq(values)
        q == SumSeq([i \in DOMAIN values |-> values[i] * values[i]])
    IN  /\ layer_.count = n
        /\ layer_.mean = Rat(s, n)
        /\ layer_.variance = Rat(n * q - s * s, n * n)

\* The Normalization layers at hand, each with the feature it was made for:
\* the demonstration layer, the layer of the loop iteration, the layers
\* already wired.  All were adapted on the current train_ds.
NormalizationLayers ==
    (IF Ran("demo_normalization") /\ ~Ran("demo_type")
     THEN {<<layer, "PhotoAmt">>} ELSE {})
    \cup (IF Cur.stmt = "numeric_wire" THEN {<<current_layer, Cur.header>>} ELSE {})
    \cup {<<encoded_features[i].layer, encoded_features[i].input>> :
            i \in {j \in DOMAIN encoded_features :
                     encoded_features[j].layer.kind = "Normalization"}}

C10_SinglePrediction ==
    /\ Ran("input_dict") =>
          \A name \in DOMAIN input_dict :
             /\ input_dict[name].shape = <<1>>
             /\ input_dict[name].values = <<sample[name]>>
    /\ Ran("predict") =>
          /\ predictions.shape = <<1, 1>>
          /\ Len(predictions.values) = 1
          /\ prob.shape = <<1>>
          /\ prob.values = <<sigmoid(predictions.values[1][1])>>

C10_Witness ==
    /\ Ran("predict")
    /\ Len(predictions.values) = 1
    /\ prob.values[1].sigmoid.weights = reloaded_model.weights

\* The order is a permutation of the positions 1..n.
IsPermutation(order, n) ==
    /\ DOMAIN order = 1..n
    /\ Range(order) = 1..n

\* Row j of a dataframe, as a record over its columns.
RowAt(df, j) == [c \in Range(df.columns) |-> df.rows[j][c]]

\* The slices a pass yields, batch after batch, each as a row: the feature
\* values of one position of an element with the label of that position.
SlicesOf(elements) ==
    Flatten([k \in DOMAIN elements |->
               [i \in 1..Len(elements[k].labels) |->
                  [c \in (DOMAIN elements[k].features) \cup {"target"} |->
                     IF c = "target" THEN elements[k].labels[i]
                     ELSE elements[k].features[c][i]]]])

Occurrences(seq, r) == Cardinality({i \in DOMAIN seq : seq[i] = r})

\* The sizes of the batches of one pass.
BatchSizes(ds, order) ==
    [k \in 1..NumBatches(ds) |-> Len(Elements(ds, order)[k].labels)]

\* Every pass over ds, built from df with shuffle=True: the order of the
\* pass is a permutation of df's rows, the slices yielded are those rows in
\* that order (so each row, with its own label, as often as it is in df),
\* and the batches have the sizes of the pass over the same pipeline
\* without the shuffle stage.
FullPass(ds, df) ==
    /\ ds.shuffle
    /\ ds.buffer_size = FrameLen(df)
    /\ \A order \in Orders(ds) :
          LET slices == SlicesOf(Elements(ds, order))
              rows   == [j \in 1..FrameLen(df) |-> RowAt(df, j)]
          IN  /\ IsPermutation(order, FrameLen(df))
              /\ Len(slices) = FrameLen(df)
              /\ \A j \in 1..FrameLen(df) : slices[j] = rows[order[j]]
              /\ \A j \in 1..FrameLen(df) :
                    Occurrences(slices, rows[j]) = Occurrences(rows, rows[j])
              /\ \A plain \in Orders([ds EXCEPT !.shuffle = FALSE]) :
                    BatchSizes(ds, order) = BatchSizes([ds EXCEPT !.shuffle = FALSE], plain)

\* The statement is the one the program has just completed.
JustRan(name) == log # <<>> /\ log[Len(log)].stmt = name

\* C11: a dataset built by df_to_dataset with shuffle=True yields on every
\* full pass each row of the dataframe exactly once, in a permutation of
\* the rows; the batches have the sizes they have without shuffling; and
\* every label stays with the features of its own row.  Where the program
\* has just built its training pipeline this holds of that pipeline and of
\* df_to_dataset applied to the training dataframe with every batch size up
\* to the small one, where a pass has several batches; and from then on the
\* training pipeline shuffles with a buffer as long as the training
\* dataframe and every order of a pass is a permutation of its rows.
C11_ShuffledPass ==
    /\ Ran("demo_pipeline") =>
          /\ train_ds.shuffle
          /\ train_ds.buffer_size = FrameLen(train)
          /\ Cardinal(train_ds) = FrameLen(train)
          /\ \A order \in Orders(train_ds) : IsPermutation(order, FrameLen(train))
    /\ (JustRan("demo_pipeline") \/ JustRan("build_pipelines")) =>
          /\ FullPass(train_ds, train)
          /\ \A size \in 1..SmallBatchSize :
                FullPass(df_to_dataset(train, TRUE, size), train)

C11_Witness ==
    /\ Ran("build_pipelines")
    /\ train_ds.shuffle
    /\ Cardinal(train_ds) > SmallBatchSize
    /\ \E i, j \in 1..FrameLen(train) : RowAt(train, i) # RowAt(train, j)
    /\ \E order \in Orders(train_ds) : order[1] # 1
    /\ LET ds == df_to_dataset(train, TRUE, SmallBatchSize)
       IN  \E order \in Orders(ds) :
              /\ order[1] # 1
              /\ NumBatches(ds) > 1
              /\ BatchSizes(ds, order)[NumBatches(ds)] < SmallBatchSize

\* The rows inference is tried on: the sample of the program and the rows
\* of the row pool, each over the model's feature keys.
InferenceRows ==
    {sample} \cup {[name \in DOMAIN sample |-> RowPool[i][name]] : i \in DOMAIN RowPool}

\* The input dictionaries tried: one tensor of batch dimension 1 per key for
\* every inference row, and one of batch dimension 2 for the sample
\* followed by every inference row.
InputDicts ==
    {InputDictOf(r) : r \in InferenceRows}
       \cup {[name \in DOMAIN sample |-> convert_to_tensor(<<sample[name], r[name]>>)] :
               r \in InferenceRows}

\* The model r holds what the model m holds: the same inputs, the same
\* learned statistics and vocabularies layer by layer, the same dense
\* weights.
SameState(m, r) ==
    /\ InputNames(r.inputs) = InputNames(m.inputs)
    /\ DOMAIN LayersOf(r) = DOMAIN LayersOf(m)
    /\ \A i \in DOMAIN LayersOf(m) :
          /\ LayersOf(r)[i].kind = LayersOf(m)[i].kind
          /\ LayerState(LayersOf(r)[i]) = LayerState(LayersOf(m)[i])
    /\ r.weights = m.weights

\* The model r is the model m after a round trip: it holds the same state
\* and gives the same prediction for every input dictionary.
RoundTrip(m, r) ==
    /\ SameState(m, r)
    /\ \A x \in InputDicts : predict(r, x) = predict(m, x)

\* C12: saving the model and loading it back is a round trip.  The model
\* the program reloads holds the normalization statistics, vocabularies and
\* weights of the model it was saved from and, where it has just been
\* loaded, predicts for every input dictionary what that model predicts;
\* the prediction the program then makes is the one the original model
\* makes for the same input; and the model as fit leaves it survives the
\* round trip load_model(save(model)) in the same way.
C12_SaveLoadRoundTrip ==
    /\ Ran("load_model") => SameState(model, reloaded_model)
    /\ JustRan("load_model") => RoundTrip(model, reloaded_model)
    /\ Ran("predict") => predictions = predict(model, input_dict)
    /\ JustRan("fit") => RoundTrip(model, load_model(save(model)))

C12_Witness ==
    /\ Ran("load_model")
    /\ saved_dir.exists
    /\ reloaded_model.weights = NumWeights
    /\ \E x, y \in InputDicts :
          /\ predict(reloaded_model, x) # predict(reloaded_model, y)
          /\ Len(predict(reloaded_model, x).values) = 2
    /\ \E i \in DOMAIN LayersOf(reloaded_model) :
          /\ LayersOf(reloaded_model)[i].kind = "Normalization"
          /\ LayersOf(reloaded_model)[i].variance # RZero
    /\ \E i \in DOMAIN LayersOf(reloaded_model) :
          /\ LayersOf(reloaded_model)[i].kind = "CategoryLambda"
          /\ vocabulary_size(LayersOf(reloaded_model)[i].index) > 2

====
